---- MODULE Spec2Model ----
(***************************************************************************)
(* The two subgraph mapping handlers of the repository, both named         *)
(* handleApiCallProved:                                                    *)
(*   - the ApiCallProved handler keys its entity by                        *)
(*       event.transaction.hash.concatI32(event.logIndex.toI32())          *)
(*   - the ApiCall handler (subgraph/src/mapping.ts) keys its entity by    *)
(*       event.transaction.hash.toHex() + ":" + event.logIndex.toString()  *)
(* Each copies the event's fields into a fresh entity and saves it.        *)
(*                                                                         *)
(* Bytes are sequences of 0..255.  A BigInt is its little-endian two's     *)
(* complement byte sequence, as graph-ts holds it.  Strings are strings.   *)
(***************************************************************************)
EXTENDS Integers, Sequences, FiniteSets, TLC

\* The number of handler calls a behaviour makes.
MaxCalls == 3

VARIABLES
  provedStore,  \* the ApiCallProved entities, by store key
  callStore,    \* the ApiCall entities, by store key
  provedLog,    \* calls of the ApiCallProved handler that reached the store or
                \* aborted, since the last clearStore(): [event, id]
  callLog,      \* the same for the ApiCall handler
  last,         \* the latest call
  calls         \* handler calls made so far

vars == << provedStore, callStore, provedLog, callLog, last, calls >>

-----------------------------------------------------------------------------
(* Bytes, hex and 32-bit conversions *)

HexChars == <<"0","1","2","3","4","5","6","7","8","9","a","b","c","d","e","f">>

RECURSIVE HexOf(_)
HexOf(bytes) ==
  IF bytes = <<>> THEN ""
  ELSE HexChars[(Head(bytes) \div 16) + 1] \o HexChars[(Head(bytes) % 16) + 1]
         \o HexOf(Tail(bytes))

\* Bytes.toHex() / toHexString(): "0x" and two lower-case digits per byte.
ToHex(bytes) == "0x" \o HexOf(bytes)

\* The sign of a BigInt: the top bit of its last (most significant) byte.
IsNeg(b) == Len(b) > 0 /\ b[Len(b)] \div 128 = 1

Padding(b) == IF IsNeg(b) THEN 255 ELSE 0

\* toI32 throws ("overflow converting ... to i32") when a byte beyond the
\* fourth is not sign padding: a non-negative BigInt of 2^32 or more.  One
\* from 2^31 to 2^32 - 1 passes and reads as a negative i32.
I32Overflow(b) == \E i \in 5..Len(b) : b[i] # Padding(b)

PaddedBytes(b) == [i \in 1..4 |-> IF i <= Len(b) THEN b[i] ELSE Padding(b)]

\* BigInt.toI32(): the four low bytes read as a little-endian signed i32.
ToI32(b) ==
  LET p == PaddedBytes(b)
      top == IF p[4] >= 128 THEN p[4] - 256 ELSE p[4]
  IN  p[1] + 256 * p[2] + 65536 * p[3] + 16777216 * top

\* ByteArray.fromI32(x): the four bytes of x, low byte first.
FromI32(x) ==
  << x % 256, (x \div 256) % 256, (x \div 65536) % 256, (x \div 16777216) % 256 >>

\* Bytes.concatI32(other): the bytes followed by the four bytes of other.
ConcatI32(bytes, x) == bytes \o FromI32(x)

-----------------------------------------------------------------------------
(* BigInt.toString(): decimal digits, by long division of the magnitude *)

Digits == <<"0","1","2","3","4","5","6","7","8","9">>

RECURSIVE Reverse(_)
Reverse(s) == IF s = <<>> THEN <<>> ELSE Reverse(Tail(s)) \o <<Head(s)>>

\* Divide a big-endian base-256 number by ten: <<quotient, remainder>>.
RECURSIVE LongDiv10(_, _)
LongDiv10(be, carry) ==
  IF be = <<>> THEN << <<>>, carry >>
  ELSE LET cur  == carry * 256 + Head(be)
           rest == LongDiv10(Tail(be), cur % 10)
       IN  << <<cur \div 10>> \o rest[1], rest[2] >>

IsZero(be) == \A i \in 1..Len(be) : be[i] = 0

RECURSIVE DecimalOf(_)
DecimalOf(be) ==
  IF IsZero(be) THEN ""
  ELSE LET qr == LongDiv10(be, 0)
       IN  DecimalOf(qr[1]) \o Digits[qr[2] + 1]

\* Of a non-negative BigInt (a log index is unsigned on chain).
BigIntToString(b) == IF IsZero(b) THEN "0" ELSE DecimalOf(Reverse(b))

-----------------------------------------------------------------------------
(* The decoded chain events handed to the handlers *)

\* 0xa16081f360e3847006db660bae1c6d1b2e17ec2a, the default address of
\* newMockEvent(), which is also the mock transaction's hash.
DefaultAddress ==
  << 161, 96, 129, 243, 96, 227, 132, 112, 6, 219,
     102, 11, 174, 28, 109, 27, 46, 23, 236, 42 >>

\* A 32-byte transaction hash, 0xaa00..01.
TxHash == [i \in 1..32 |-> IF i = 1 THEN 170 ELSE IF i = 32 THEN 1 ELSE 0]

\* Log indexes as BigInt bytes: 1, 2^31, 2^32 + 1.
LogIndexes == { <<1>>, <<0, 0, 0, 128, 0>>, <<1, 0, 0, 0, 1>> }

Address(low) == [i \in 1..20 |-> IF i = 20 THEN low ELSE 0]

\* The parameters and block of the unit test's event (mock defaults).
TestPayload ==
  [ params |-> [ callId       |-> "Example string value",
                 requestHash  |-> "Example string value",
                 responseHash |-> "Example string value",
                 emitter      |-> Address(1) ],
    block  |-> [ number |-> <<1>>, timestamp |-> <<1>> ] ]

\* Another emission: block 100, timestamp 1700000000.
OtherPayload ==
  [ params |-> [ callId       |-> "call-1",
                 requestHash  |-> "req-1",
                 responseHash |-> "res-1",
                 emitter      |-> Address(2) ],
    block  |-> [ number |-> <<100>>, timestamp |-> <<0, 241, 83, 101>> ] ]

Payloads == { TestPayload, OtherPayload }

ApiCallProvedEvent(hash, logIndex, payload) ==
  [ address     |-> DefaultAddress,
    logIndex    |-> logIndex,
    transaction |-> [ hash |-> hash ],
    block       |-> payload.block,
    params      |-> payload.params ]

\* Mock events (the mock transaction hash) with either payload, and events of
\* a real transaction; (hash, logIndex) pairs repeat with different payloads.
Events ==
  { ApiCallProvedEvent(DefaultAddress, li, pl) : li \in LogIndexes, pl \in Payloads }
    \cup { ApiCallProvedEvent(TxHash, li, OtherPayload) : li \in LogIndexes }

\* createApiCallProvedEvent(...) of the unit test's beforeAll.
createApiCallProvedEvent == ApiCallProvedEvent(DefaultAddress, <<1>>, TestPayload)

-----------------------------------------------------------------------------
(* Entities and the store *)

\* new Entity(id): only the id is set.
NewEntity(id) == [f \in {"id"} |-> id]

\* entity.<name> = value
SetField(entity, name, value) ==
  [f \in DOMAIN entity \cup {name} |-> IF f = name THEN value ELSE entity[f]]

\* Faulty variant: the write replaces the store's content by the one entity.
StoreSetReplacingAll(store, key, entity) == [k \in {key} |-> entity]

\* store.set(type, key, entity): create or overwrite the entity under key.
StoreSet(store, key, entity) ==
  [k \in DOMAIN store \cup {key} |-> IF k = key THEN entity ELSE store[k]]

EmptyStore == [k \in {} |-> NewEntity("")]

\* Faulty variant: an auto-incrementing counter in place of the log index.
ProvedIdAutoIncrement(event) ==
  ConcatI32(event.transaction.hash, Cardinality(DOMAIN provedStore))

\* Faulty variant: the block number becomes part of the id.
ProvedIdWithBlock(event) ==
  ConcatI32(event.transaction.hash \o event.block.number, ToI32(event.logIndex))

\* Faulty variant: the transaction hash alone.
ProvedIdHashOnly(event) == event.transaction.hash

\* The id of the ApiCallProved entity (Bytes).
ProvedId(event) ==
  ConcatI32(event.transaction.hash, ToI32(event.logIndex))

\* Faulty variant: requestHash and responseHash take each other's value.
ProvedEntitySwapped(event) ==
  LET e0 == NewEntity(ProvedId(event))
      e1 == SetField(e0, "callId", event.params.callId)
      e2 == SetField(e1, "requestHash", event.params.responseHash)
      e3 == SetField(e2, "responseHash", event.params.requestHash)
      e4 == SetField(e3, "emitter", event.params.emitter)
      e5 == SetField(e4, "blockNumber", event.block.number)
      e6 == SetField(e5, "blockTimestamp", event.block.timestamp)
  IN  SetField(e6, "transactionHash", event.transaction.hash)

\* Faulty variant: save() is reached before the emitter and the block and
\* transaction fields are assigned.
ProvedEntitySavedEarly(event) ==
  LET e0 == NewEntity(ProvedId(event))
      e1 == SetField(e0, "callId", event.params.callId)
      e2 == SetField(e1, "requestHash", event.params.requestHash)
  IN  SetField(e2, "responseHash", event.params.responseHash)

\* The ApiCallProved entity as the handler has built it when it calls save().
ProvedEntity(event) ==
  LET e0 == NewEntity(ProvedId(event))
      e1 == SetField(e0, "callId", event.params.callId)
      e2 == SetField(e1, "requestHash", event.params.requestHash)
      e3 == SetField(e2, "responseHash", event.params.responseHash)
      e4 == SetField(e3, "emitter", event.params.emitter)
      e5 == SetField(e4, "blockNumber", event.block.number)
      e6 == SetField(e5, "blockTimestamp", event.block.timestamp)
  IN  SetField(e6, "transactionHash", event.transaction.hash)

\* Faulty variant: the entity goes under its transaction hash.
ProvedSaveByTxHash(store, entity) ==
  StoreSet(store, ToHex(entity.transactionHash), entity)

\* ApiCallProved.save(): the entity goes under its id's hex string.
ProvedSave(store, entity) == StoreSet(store, ToHex(entity.id), entity)

\* Faulty variant: the transaction hash alone.
CallIdHashOnly(event) == ToHex(event.transaction.hash)

\* The id of the ApiCall entity (a string).
CallId(event) ==
  ToHex(event.transaction.hash) \o ":" \o BigIntToString(event.logIndex)

\* The ApiCall entity as the handler has built it when it calls save().
CallEntity(event) ==
  LET e0 == NewEntity(CallId(event))
      e1 == SetField(e0, "callId", event.params.callId)
      e2 == SetField(e1, "requestHash", event.params.requestHash)
      e3 == SetField(e2, "responseHash", event.params.responseHash)
      e4 == SetField(e3, "emitter", event.params.emitter)
      e5 == SetField(e4, "txHash", event.transaction.hash)
      e6 == SetField(e5, "blockNumber", event.block.number)
  IN  SetField(e6, "timestamp", event.block.timestamp)

CallSave(store, entity) == StoreSet(store, entity.id, entity)

-----------------------------------------------------------------------------
(* State *)

\* What a call that aborted before computing an id leaves as its id.
NoId == ""

\* The log's position of an event: the pair the ids are derived from.
Key(event) == << event.transaction.hash, event.logIndex >>

Count(store) == Cardinality(DOMAIN store)

\* The latest call was a completed call of this handler for this event.
Repeats(handler, event) ==
  last.handler = handler /\ last.event = event /\ last.result = "saved"

\* The record of one call, taken in the state the call starts from: the
\* count before it, whether the event's log position was stored before it,
\* and, when it repeats the call before it, that call's id, count and stored.
CallRecord(handler, event, result, id, store, log) ==
  [ handler |-> handler,
    event   |-> event,
    result  |-> result,
    id      |-> id,
    before  |-> Count(store),
    existed |-> \E c \in log : Key(c.event) = Key(event) /\ c.id # NoId,
    again   |-> Repeats(handler, event),
    prevId  |-> IF Repeats(handler, event) THEN last.id ELSE NoId,
    prevBefore  |-> IF Repeats(handler, event) THEN last.before ELSE 0,
    prevExisted |-> Repeats(handler, event) /\ last.existed ]

Init ==
  /\ provedStore = EmptyStore
  /\ callStore = EmptyStore
  /\ provedLog = {}
  /\ callLog = {}
  /\ last = [ handler |-> "none", event |-> createApiCallProvedEvent,
              result |-> "none", id |-> NoId, before |-> 0,
              existed |-> FALSE, again |-> FALSE, prevId |-> NoId,
              prevBefore |-> 0, prevExisted |-> FALSE ]
  /\ calls = 0

-----------------------------------------------------------------------------
(* Operations *)

\* handleApiCallProved of the ApiCallProved subgraph.  toI32 aborts the
\* handler before anything is written; save() is its only write, and the
\* host either commits it whole or fails it (storeUp = FALSE) writing nothing.
HandleApiCallProved(event, storeUp) ==
  /\ calls < MaxCalls
  /\ calls' = calls + 1
  /\ UNCHANGED << callStore, callLog >>
  /\ IF I32Overflow(event.logIndex)
     THEN /\ provedStore' = provedStore
          /\ provedLog' = provedLog \cup { [event |-> event, id |-> NoId] }
          /\ last' = CallRecord("ApiCallProved", event, "aborted", NoId,
                                provedStore, provedLog)
     ELSE LET entity == ProvedEntity(event)
              id     == ToHex(entity.id)
          IN  IF storeUp
              THEN /\ provedStore' = ProvedSave(provedStore, entity)
                   /\ provedLog' = provedLog \cup { [event |-> event, id |-> id] }
                   /\ last' = CallRecord("ApiCallProved", event, "saved", id,
                                         provedStore, provedLog)
              ELSE /\ UNCHANGED << provedStore, provedLog >>
                   /\ last' = CallRecord("ApiCallProved", event,
                                         "StoreUnavailable", id,
                                         provedStore, provedLog)

\* handleApiCallProved of subgraph/src/mapping.ts (the ApiCall entity).
HandleApiCall(event, storeUp) ==
  /\ calls < MaxCalls
  /\ calls' = calls + 1
  /\ UNCHANGED << provedStore, provedLog >>
  /\ LET entity == CallEntity(event)
         id     == entity.id
     IN  IF storeUp
         THEN /\ callStore' = CallSave(callStore, entity)
              /\ callLog' = callLog \cup { [event |-> event, id |-> id] }
              /\ last' = CallRecord("ApiCall", event, "saved", id,
                                    callStore, callLog)
         ELSE /\ UNCHANGED << callStore, callLog >>
              /\ last' = CallRecord("ApiCall", event, "StoreUnavailable", id,
                                    callStore, callLog)

\* clearStore() of the unit test's afterAll: the full reset of the test store.
ClearStore ==
  /\ provedStore # EmptyStore
  /\ provedStore' = EmptyStore
  /\ provedLog' = {}
  /\ last' = [ handler |-> "none", event |-> createApiCallProvedEvent,
               result |-> "cleared", id |-> NoId, before |-> Count(provedStore),
               existed |-> FALSE, again |-> FALSE, prevId |-> NoId,
               prevBefore |-> 0, prevExisted |-> FALSE ]
  /\ UNCHANGED << callStore, callLog, calls >>

Next ==
  \/ \E event \in Events, storeUp \in BOOLEAN : HandleApiCallProved(event, storeUp)
  \/ \E event \in Events, storeUp \in BOOLEAN : HandleApiCall(event, storeUp)
  \/ ClearStore

Spec == Init /\ [][Next]_vars

-----------------------------------------------------------------------------
(* Vocabulary of the properties *)

\* The store the latest call worked on.
LastStore == IF last.handler = "ApiCall" THEN callStore ELSE provedStore

\* The calls of a log that completed: the handler returned and left an id.
Done(log) == { c \in log : c.id # NoId }

LogEvents(log) == { c.event : c \in log }

\* A non-negative BigInt below 2^32: no byte beyond the fourth is set.
FitsU32(b) == ~IsNeg(b) /\ \A i \in 5..Len(b) : b[i] = 0

ProvedFields ==
  { "id", "callId", "requestHash", "responseHash", "emitter",
    "blockNumber", "blockTimestamp", "transactionHash" }

CallFields ==
  { "id", "callId", "requestHash", "responseHash", "emitter",
    "txHash", "blockNumber", "timestamp" }

\* The entity carries the four parameters of the event.
CarriesParams(entity, event) ==
  /\ {"callId", "requestHash", "responseHash", "emitter"} \subseteq DOMAIN entity
  /\ entity.callId = event.params.callId
  /\ entity.requestHash = event.params.requestHash
  /\ entity.responseHash = event.params.responseHash
  /\ entity.emitter = event.params.emitter

-----------------------------------------------------------------------------
(* Properties *)

Determinism ==
  \A log \in { provedLog, callLog } :
    \A c1, c2 \in Done(log) :
      Key(c1.event) = Key(c2.event) => c1.id = c2.id

\* Two completed calls of the ApiCallProved handler for the same log position
\* whose events differ in every other field.
DeterminismWitness ==
  \E c1, c2 \in Done(provedLog) :
    /\ Key(c1.event) = Key(c2.event)
    /\ c1.event.params = TestPayload.params /\ c1.event.block = TestPayload.block
    /\ c2.event.params = OtherPayload.params /\ c2.event.block = OtherPayload.block
    /\ c1.id = c2.id

\* C4 (field fidelity): right after a call that completed, the store holds an
\* entity under the call's id whose callId, requestHash, responseHash and
\* emitter are the event's.
FieldFidelity ==
  last.result = "saved" =>
    /\ last.id \in DOMAIN LastStore
    /\ CarriesParams(LastStore[last.id], last.event)

\* A completed call whose event has four different parameter values, on a
\* store that already held the event's id with other values.
FieldFidelityWitness ==
  /\ last.result = "saved"
  /\ last.handler = "ApiCallProved"
  /\ last.event.params = OtherPayload.params
  /\ last.existed
  /\ \E c \in provedLog : c.id = last.id /\ c.event.params = TestPayload.params

\* C3 as stated (uniqueness for any non-negative logIndex): calls for events
\* that differ in transactionHash or logIndex each left an id, and the two
\* ids differ.
UniquenessAnyLogIndex ==
  \A log \in { provedLog, callLog } :
    \A c1, c2 \in log :
      Key(c1.event) # Key(c2.event) =>
        c1.id # NoId /\ c2.id # NoId /\ c1.id # c2.id

\* C3 amended (uniqueness for log indexes below 2^32): in the ApiCallProved
\* handler, calls for events that differ in transactionHash or logIndex and
\* whose log indexes are below 2^32 each left an id, and the ids differ; in
\* the ApiCall handler this holds for every log index.
Uniqueness ==
  /\ \A c1, c2 \in provedLog :
       ( /\ Key(c1.event) # Key(c2.event)
         /\ FitsU32(c1.event.logIndex) /\ FitsU32(c2.event.logIndex) )
       => c1.id # NoId /\ c2.id # NoId /\ c1.id # c2.id
  /\ \A c1, c2 \in callLog :
       Key(c1.event) # Key(c2.event) =>
         c1.id # NoId /\ c2.id # NoId /\ c1.id # c2.id

\* Two calls of the ApiCallProved handler for the same transaction, at log
\* indexes 1 and 2^31.
UniquenessWitness ==
  \E c1, c2 \in provedLog :
    /\ c1.event.transaction.hash = c2.event.transaction.hash
    /\ c1.event.logIndex = <<1>>
    /\ c2.event.logIndex = <<0, 0, 0, 128, 0>>
    /\ c1.id # NoId /\ c2.id # NoId /\ c1.id # c2.id

\* What a step leaves of a store: every entity, unchanged.
Kept(store, storeAfter) ==
  \A k \in DOMAIN store : k \in DOMAIN storeAfter /\ storeAfter[k] = store[k]

\* C5 as stated (immutability): no step but the full store reset changes or
\* removes an entity that exists.
ImmutableUnlessReset ==
  [][ \/ last'.result = "cleared"
      \/ Kept(provedStore, provedStore') /\ Kept(callStore, callStore') ]_vars

\* Every entity stays; one changes only by a completed call for another event
\* of the same (transactionHash, logIndex), and then carries that event's
\* parameters.
KeptOrOverwritten(store, storeAfter, log) ==
  \A k \in DOMAIN store :
    /\ k \in DOMAIN storeAfter
    /\ \/ storeAfter[k] = store[k]
       \/ /\ last'.result = "saved"
          /\ last'.id = k
          /\ \E c \in log : /\ c.id = k
                            /\ Key(c.event) = Key(last'.event)
                            /\ c.event # last'.event
          /\ CarriesParams(storeAfter[k], last'.event)

\* C5 amended: no step but the full store reset removes an entity; a call for
\* an event of another (transactionHash, logIndex), or a replay with the same
\* field values, leaves it unchanged; a call for an event of the same
\* (transactionHash, logIndex) with other field values overwrites it with
\* that event's values.
ImmutableUnlessOverwritten ==
  [][ \/ last'.result = "cleared"
      \/ /\ KeptOrOverwritten(provedStore, provedStore', provedLog)
         /\ KeptOrOverwritten(callStore, callStore', callLog) ]_vars

\* An entity was overwritten by an event of its own log position with other
\* field values, beside another entity that stayed.
OverwriteWitness ==
  /\ last.result = "saved"
  /\ last.handler = "ApiCallProved"
  /\ last.existed
  /\ \E c \in provedLog : c.id = last.id /\ c.event.params # last.event.params
  /\ Count(provedStore) = 2

\* Every stored entity has every field of its type populated.
AllComplete ==
  /\ \A k \in DOMAIN provedStore : DOMAIN provedStore[k] = ProvedFields
  /\ \A k \in DOMAIN callStore : DOMAIN callStore[k] = CallFields

WellFormed(event) ==
  /\ Len(event.transaction.hash) = 32
  /\ ~IsNeg(event.logIndex)
  /\ Len(event.params.emitter) = 20

\* C7 (malformed events are rejected without effect): a call, with the store
\* available, for an event that lacks the required shape fails and leaves
\* the store's count as it was.
MalformedRejected ==
  ( /\ last.handler # "none"
    /\ last.result # "StoreUnavailable"
    /\ ~WellFormed(last.event) )
  => last.result = "aborted" /\ Count(LastStore) = last.before

\* C8 (the unit test's assertions): after the handler handled the test's
\* event on an empty store, the store holds one ApiCallProved entity, found
\* under "0xa16081f360e3847006db660bae1c6d1b2e17ec2a-1", with the event's
\* parameters.
TestAssertions ==
  ( /\ last.handler = "ApiCallProved"
    /\ last.event = createApiCallProvedEvent
    /\ last.result = "saved"
    /\ last.before = 0 )
  => /\ Count(provedStore) = 1
     /\ "0xa16081f360e3847006db660bae1c6d1b2e17ec2a-1" \in DOMAIN provedStore
     /\ LET entity == provedStore["0xa16081f360e3847006db660bae1c6d1b2e17ec2a-1"]
        IN  /\ entity.callId = "Example string value"
            /\ entity.requestHash = "Example string value"
            /\ entity.responseHash = "Example string value"
            /\ ToHex(entity.emitter) = "0x0000000000000000000000000000000000000001"

\* Events of one (transactionHash, logIndex) carry the same field values.
Consistent(log) ==
  \A c1, c2 \in Done(log) : Key(c1.event) = Key(c2.event) => c1.event = c2.event

ProvedIdOf == [event \in Events |-> ProvedId(event)]

CallIdOf == [event \in Events |-> CallId(event)]

\* C10 as stated (the two handlers key entities equivalently, for all
\* events): two calls of the ApiCallProved handler left the same id exactly
\* when the ApiCall handler's ids of their events are the same; and when both
\* handlers were given the same events, both stores hold the same number of
\* entities.
KeysEquivalentAnyLogIndex ==
  /\ \A a1, a2 \in provedLog :
       (a1.id = a2.id) <=> (CallIdOf[a1.event] = CallIdOf[a2.event])
  /\ LogEvents(provedLog) = LogEvents(callLog) =>
       Count(provedStore) = Count(callStore)

\* C10 amended (for events whose log index is below 2^32): the ids of one
\* handler are equal exactly when the other's are; when both handlers were
\* given the same such events both stores hold the same number of entities,
\* one per distinct (transactionHash, logIndex).
KeysEquivalent ==
  /\ \A a1, a2 \in provedLog :
       FitsU32(a1.event.logIndex) /\ FitsU32(a2.event.logIndex) =>
         ((a1.id = a2.id) <=> (CallIdOf[a1.event] = CallIdOf[a2.event]))
  /\ \A b1, b2 \in callLog :
       FitsU32(b1.event.logIndex) /\ FitsU32(b2.event.logIndex) =>
         ((b1.id = b2.id) <=> (ProvedIdOf[b1.event] = ProvedIdOf[b2.event]))
  /\ ( /\ LogEvents(provedLog) = LogEvents(callLog)
       /\ \A event \in LogEvents(provedLog) : FitsU32(event.logIndex) )
     => /\ Count(provedStore) = Count(callStore)
        /\ Count(provedStore)
             = Cardinality({ Key(event) : event \in LogEvents(provedLog) })

\* The ApiCallProved handler handled two events of different log positions,
\* and the ApiCall handler one of them.
KeysEquivalentWitness ==
  /\ \E a1, a2 \in provedLog :
       /\ Key(a1.event) # Key(a2.event)
       /\ a1.id # NoId /\ a2.id # NoId /\ a1.id # a2.id
  /\ callLog # {}
  /\ \E b \in callLog : \E a \in provedLog : a.event = b.event /\ a.id # NoId

====
